---- MODULE Spec2Model ----
(***************************************************************************)
(* Model of the SGDSlicedWasserstein utilities.                            *)
(*                                                                         *)
(*   loss.py  sw_loss / SWDLoss.forward : the sliced Wasserstein estimator *)
(*   plot.py  plot_loss / plot_model_results / plot_distributions          *)
(*                                                                         *)
(* Tensors are finite and hold exact numbers.  A 2-D tensor of shape       *)
(* [n, d] is a sequence of n rows, each a sequence of d entries.  The      *)
(* normalised projection matrix is kept in fixed point: an entry e stands  *)
(* for e / Scale, so projections are in units of 1/Scale and squared       *)
(* differences in units of 1/Scale^2.  The score is an exact fraction      *)
(* <<num, den>> in lowest terms.                                           *)
(***************************************************************************)
EXTENDS Integers, Sequences, FiniteSets, TLC

\* ---------------------------------------------------------------- bounds
MaxBatch == 3       \* batch sizes 1..MaxBatch
MaxDim == 2         \* feature dimensions 1..MaxDim
MaxCells == 4       \* entries of one batch: n * d <= MaxCells
MaxProj == 2        \* num_projections 1..MaxProj
MaxDraws == 4       \* normal samples the global generator hands out in a run
MaxEpochs == 3      \* length of a loss series in the history file
MaxMembers == 2     \* members of the JSON object in the history file
MaxSamples == 2     \* samples of a plotted dataset

\* The entries of the batches.
Vals == {0, 1}

\* The values torch.randn is taken to return: a negative and a positive one,
\* chosen so that columns with an integer Euclidean norm exist in one and in
\* two dimensions (3, 4 and 3-4-5).
RawVals == {-3, 4}

\* The loss values of the history file.
LossVals == {1, 2}

\* ------------------------------------------------------------ arithmetic
Abs(x) == IF x < 0 THEN -x ELSE x

Min(x, y) == IF x <= y THEN x ELSE y

RECURSIVE GCD(_, _)
GCD(x, y) == IF y = 0 THEN Abs(x) ELSE GCD(y, x % y)

LCM(x, y) == (x * y) \div GCD(x, y)

RECURSIVE LCMOfSet(_)
LCMOfSet(S) ==
    IF S = {} THEN 1
    ELSE LET x == CHOOSE y \in S : TRUE IN LCM(x, LCMOfSet(S \ {x}))

RECURSIVE SumSeq(_)
SumSeq(s) == IF s = <<>> THEN 0 ELSE Head(s) + SumSeq(Tail(s))

\* floor of the square root
ISqrt(k) == CHOOSE r \in 0..k : r * r <= k /\ k < (r + 1) * (r + 1)

IsSquare(k) == ISqrt(k) * ISqrt(k) = k

\* an exact fraction in lowest terms, den > 0
Fraction(num, den) ==
    LET g == GCD(num, den) IN [num |-> num \div g, den |-> den \div g]

\* ------------------------------------------------------------ tensors
Rows(x) == Len(x)

Cols(x) == Len(x[1])

Column(x, j) == [i \in 1..Rows(x) |-> x[i][j]]

Tensors(n, d) == [1..n -> [1..d -> Vals]]

Shapes ==
    {sh \in (1..MaxBatch) \X (1..MaxDim) : sh[1] * sh[2] <= MaxCells}

Batches == UNION {Tensors(sh[1], sh[2]) : sh \in Shapes}

\* torch.randn(feature_dim, num_projections): the draws whose columns have an
\* integer norm, so that the normalised matrix is exact
SumSquares(col) == SumSeq([i \in 1..Len(col) |-> col[i] * col[i]])

Norm(col) == ISqrt(SumSquares(col))

RandnDraws(d, P) ==
    {t \in [1..d -> [1..P -> RawVals]] :
        \A j \in 1..P : IsSquare(SumSquares(Column(t, j)))}

\* the fixed-point unit: every norm a draw can have divides it
Scale ==
    LCMOfSet({Norm(c) : c \in
        {c \in UNION {[1..d -> RawVals] : d \in 1..MaxDim} :
            IsSquare(SumSquares(c))}} \ {0})

\* F.normalize(theta, dim=0): each column divided by max(norm, eps); a
\* zero column has norm 0 < eps and stays zero (no draw enumerated here is
\* zero)
Normalize(t) ==
    [i \in 1..Rows(t) |-> [j \in 1..Cols(t) |->
        LET nrm == Norm(Column(t, j)) IN
        IF nrm = 0 THEN 0 ELSE (t[i][j] * Scale) \div nrm]]

\* faulty variant: no shape rule
MatmulOkAny(x, t) == TRUE

\* x @ theta is defined when the inner dimensions agree (the sum below runs
\* over that common dimension)
MatmulOk(x, t) == Cols(x) = Rows(t)

Matmul(x, t) ==
    [r \in 1..Rows(x) |-> [j \in 1..Cols(t) |->
        SumSeq([i \in 1..Min(Cols(x), Rows(t)) |-> x[r][i] * t[i][j]])]]

\* faulty variants: no sort, descending sort
SortDim0None(p) == p

SortDim0Desc(p) ==
    LET sorted == [j \in 1..Cols(p) |-> SortSeq(Column(p, j), LAMBDA u, v : u > v)]
    IN [i \in 1..Rows(p) |-> [j \in 1..Cols(p) |-> sorted[j][i]]]

\* torch.sort(p, dim=0): every column sorted ascending on its own
SortDim0(p) ==
    LET sorted == [j \in 1..Cols(p) |-> SortSeq(Column(p, j), LAMBDA u, v : u < v)]
    IN [i \in 1..Rows(p) |-> [j \in 1..Cols(p) |-> sorted[j][i]]]

ProjTrueSorted(proj_true) == SortDim0(proj_true)

ProjFakeSorted(proj_fake) == SortDim0(proj_fake)

\* faulty variants: equal shapes only, truncation to the shorter
BroadcastRowsStrict(n, m) == IF n = m THEN n ELSE 0

BroadcastRowsTruncate(n, m) == Min(n, m)

\* rows of the broadcast of shapes [n, P] and [m, P]; 0 when the shapes do
\* not broadcast
BroadcastRows(n, m) ==
    IF n = m THEN n
    ELSE IF n = 1 THEN m
    ELSE IF m = 1 THEN n
    ELSE 0

BRow(x, i) == IF Rows(x) = 1 THEN x[1] ELSE x[i]

Sub(x, y) ==
    [i \in 1..BroadcastRows(Rows(x), Rows(y)) |-> [j \in 1..Cols(x) |->
        BRow(x, i)[j] - BRow(y, i)[j]]]

\* faulty variant: differences not squared
PowNone(x) == x

Pow2(x) == [i \in 1..Rows(x) |-> [j \in 1..Cols(x) |-> x[i][j] * x[i][j]]]

\* torch.mean over every element, as an exact fraction (units of 1/Scale^2
\* folded into the denominator)
Mean(x) ==
    Fraction(SumSeq([i \in 1..Rows(x) |-> SumSeq(x[i])]),
             Scale * Scale * Rows(x) * Cols(x))

\* -------------------------------------------------------------- outcomes
NoResult == [kind |-> "none", at |-> "", num |-> 0, den |-> 1]

Raised(where) == [kind |-> "error", at |-> where, num |-> 0, den |-> 1]

Returned(f) == [kind |-> "score", at |-> "", num |-> f.num, den |-> f.den]

\* sw_loss after theta is drawn and normalised: project, sort, subtract,
\* average
SwLossWith(a, b, t) ==
    IF ~MatmulOk(b, t) THEN Raised("matmul")
    ELSE LET proj_true_sorted == ProjTrueSorted(Matmul(a, t))
             proj_fake_sorted == ProjFakeSorted(Matmul(b, t))
         IN IF BroadcastRows(Rows(proj_true_sorted), Rows(proj_fake_sorted)) = 0
            THEN Raised("sub")
            ELSE Returned(Mean(Pow2(Sub(proj_true_sorted, proj_fake_sorted))))

\* ------------------------------------------------------------- plotting
\* The history file: absent, not JSON, or a JSON object whose members are
\* kept in file order (a key may occur twice).
HistoryKeys == {"train_loss", "valid_loss"}

LossSeries == UNION {[1..k -> LossVals] : k \in 0..MaxEpochs}

Members == [key : HistoryKeys, value : LossSeries]

HistoryFiles ==
    {[kind |-> "missing", members |-> <<>>],
     [kind |-> "malformed", members |-> <<>>]} \cup
    {[kind |-> "object", members |-> m] :
        m \in UNION {[1..k -> Members] : k \in 0..MaxMembers}}

\* json.loads of an object: a dict in which the last member of a key wins
JsonLoads(members) ==
    LET keys == {members[i].key : i \in 1..Len(members)}
        last(k) == CHOOSE i \in 1..Len(members) :
                      /\ members[i].key = k
                      /\ \A j \in (i + 1)..Len(members) : members[j].key # k
    IN [k \in keys |-> members[last(k)].value]

\* faulty variant: epochs counted from 1
PlotLineFromOne(y, label) ==
    [label |-> label, x |-> [i \in 1..Len(y) |-> i], y |-> y]

\* plt.plot(y, label=...): a line of y against range(len(y))
PlotLine(y, label) ==
    [label |-> label, x |-> [i \in 1..Len(y) |-> i - 1], y |-> y]

\* plot_loss up to plt.show(): the outcome and the figure it leaves
PlotLossOn(file) ==
    IF file.kind = "missing" THEN [outcome |-> "io_error", axes |-> <<>>]
    ELSE IF file.kind = "malformed" THEN [outcome |-> "parse_error", axes |-> <<>>]
    ELSE LET history == JsonLoads(file.members) IN
         IF "train_loss" \notin DOMAIN history \/ "valid_loss" \notin DOMAIN history
         THEN [outcome |-> "key_error", axes |-> <<>>]
         ELSE [outcome |-> "shown",
               axes |-> << <<PlotLine(history["train_loss"], "Train Loss"),
                             PlotLine(history["valid_loss"], "Valid Loss")>> >>]

\* The samples a plotted dataset is made of: one 1-D point and two 2-D points
SampleRows == {<<0>>, <<0, 1>>, <<1, 0>>}

\* A dataset item is the sample itself (tensor) or a tuple (sample, label)
Samples ==
    {[is_tuple |-> FALSE, tensor |-> r, items |-> <<>>] : r \in SampleRows} \cup
    {[is_tuple |-> TRUE, tensor |-> <<>>, items |-> <<r, <<1>>>>] :
        r \in SampleRows}

\* What the caller passes as source_dataset / target_dataset: a tensor, or an
\* indexable dataset (possibly empty)
Datasets ==
    {[kind |-> "tensor", items |-> t] :
        t \in {u \in UNION {[1..n -> SampleRows] : n \in 1..MaxSamples} :
                  \A i \in 1..Len(u) : Len(u[i]) = Len(u[1])}} \cup
    {[kind |-> "dataset", items |-> l] :
        l \in UNION {[1..n -> Samples] : n \in 0..MaxSamples}}

\* The generator passed as model: what model(x) does
ModelKinds == {"identity", "first_column", "raises"}

ModelOutput(kind, x) ==
    IF kind = "first_column" THEN [i \in 1..Rows(x) |-> <<x[i][1]>>] ELSE x

Filenames == {"", "figure.png"}

\* dataset_to_tensor: a tensor as it is; otherwise the samples (the first
\* item of a tuple sample) stacked, which needs at least one sample and equal
\* shapes
DatasetToTensor(dataset) ==
    IF dataset.kind = "tensor" THEN [ok |-> TRUE, tensor |-> dataset.items]
    ELSE LET samples == [i \in 1..Len(dataset.items) |->
                            LET sample == dataset.items[i] IN
                            IF sample.is_tuple THEN sample.items[1]
                            ELSE sample.tensor]
         IN IF samples = <<>> \/ \E i \in 1..Len(samples) :
                                     Len(samples[i]) # Len(samples[1])
            THEN [ok |-> FALSE, tensor |-> <<>>]
            ELSE [ok |-> TRUE, tensor |-> samples]

\* axes[k].scatter(t[:, 0], t[:, 1]) needs two columns
Scatterable(t) == Cols(t) >= 2

Scatter(t, label) ==
    [label |-> label, x |-> Column(t, 1), y |-> Column(t, 2)]

\* plot_distributions: four axes, filled left to right until a scatter fails
PlotDistributions(source, generated, target) ==
    IF ~Scatterable(source)
    THEN [ok |-> FALSE, axes |-> << <<>>, <<>>, <<>>, <<>> >>]
    ELSE IF ~Scatterable(generated)
    THEN [ok |-> FALSE, axes |-> << <<Scatter(source, "")>>, <<>>, <<>>, <<>> >>]
    ELSE IF ~Scatterable(target)
    THEN [ok |-> FALSE,
          axes |-> << <<Scatter(source, "")>>, <<Scatter(generated, "")>>,
                      <<>>, <<>> >>]
    ELSE [ok |-> TRUE,
          axes |-> << <<Scatter(source, "")>>, <<Scatter(generated, "")>>,
                      <<Scatter(target, "")>>,
                      <<Scatter(generated, "Generated"),
                        Scatter(target, "Target")>> >>]

\* faulty variant: the mode on entry is kept
EvalModeKept(was_training) == was_training

\* the mode model.eval() leaves the model in
EvalMode(was_training) == FALSE

\* ----------------------------------------------------------------- state
VARIABLES
    true_distribution,        \* the caller's first batch
    generated_distribution,   \* the caller's second batch
    num_projections,          \* SWDLoss.num_projections
    theta,                    \* projection matrix of the latest call
    result,                   \* outcome of the latest call
    rng,                      \* samples consumed from the global generator
    history_file,             \* the file at training_history_path
    filename,                 \* the filename argument of the plot functions
    source_dataset,           \* arguments of plot_model_results
    target_dataset,
    model_kind,
    model_training,           \* model.training
    entry_training,           \* model.training when the latest call began
    figure,                   \* axes of the current figure, each a list of artists
    saved,                    \* what plt.savefig wrote
    plot_outcome              \* how the latest plot call ended

lossvars == <<true_distribution, generated_distribution, num_projections,
              theta, result, rng>>

plotvars == <<history_file, filename, source_dataset, target_dataset,
              model_kind, model_training, entry_training, figure, saved,
              plot_outcome>>

vars == <<lossvars, plotvars>>

NothingSaved == [path |-> "", axes |-> <<>>]

\* the caller holds two batches and an SWDLoss(num_projections)
InitLoss ==
    /\ true_distribution \in Batches
    /\ generated_distribution \in Batches
    /\ num_projections \in 1..MaxProj
    /\ theta = <<>>
    /\ result = NoResult
    /\ rng = 0

\* no estimator call is made in a plotting run
IdleLoss ==
    /\ true_distribution = <<<<0>>>>
    /\ generated_distribution = <<<<0>>>>
    /\ num_projections = 1
    /\ theta = <<>>
    /\ result = NoResult
    /\ rng = 0

NoFigure ==
    /\ figure = <<>>
    /\ saved = NothingSaved
    /\ plot_outcome = "none"

NoHistory == history_file = [kind |-> "missing", members |-> <<>>]

NoModel ==
    /\ source_dataset = [kind |-> "dataset", items |-> <<>>]
    /\ target_dataset = [kind |-> "dataset", items |-> <<>>]
    /\ model_kind = "identity"
    /\ model_training = TRUE
    /\ entry_training = TRUE

InitPlotLoss ==
    /\ history_file \in HistoryFiles
    /\ filename \in Filenames

InitPlotModel ==
    /\ source_dataset \in Datasets
    /\ target_dataset \in Datasets
    /\ model_kind \in ModelKinds
    /\ model_training \in BOOLEAN
    /\ entry_training = model_training
    /\ filename \in Filenames

\* faulty variant: the first batch is sorted in place
SwLossCallInPlace(P) ==
    LET feature_dim == Cols(true_distribution) IN
    /\ rng + feature_dim * P <= MaxDraws
    /\ \E raw \in RandnDraws(feature_dim, P) :
          LET normalized == Normalize(raw) IN
          /\ theta' = normalized
          /\ result' = SwLossWith(true_distribution, generated_distribution,
                                  normalized)
    /\ rng' = rng + feature_dim * P
    /\ true_distribution' = SortDim0(true_distribution)
    /\ UNCHANGED <<generated_distribution, num_projections>>
    /\ UNCHANGED plotvars

\* sw_loss(true_distribution, generated_distribution, P)
SwLossCall(P) ==
    LET feature_dim == Cols(true_distribution) IN
    /\ rng + feature_dim * P <= MaxDraws
    /\ \E raw \in RandnDraws(feature_dim, P) :
          LET normalized == Normalize(raw) IN
          /\ theta' = normalized
          /\ result' = SwLossWith(true_distribution, generated_distribution,
                                  normalized)
    /\ rng' = rng + feature_dim * P
    /\ UNCHANGED <<true_distribution, generated_distribution, num_projections>>
    /\ UNCHANGED plotvars

SwLoss == \E P \in 1..MaxProj : SwLossCall(P)

\* SWDLoss.forward(true_distribution, generated_distribution)
Forward == SwLossCall(num_projections)

\* plot_loss(history path, filename)
PlotLoss ==
    LET done == PlotLossOn(history_file) IN
    /\ plot_outcome' = done.outcome
    /\ figure' = IF done.outcome = "shown" THEN done.axes ELSE figure
    /\ saved' = IF done.outcome = "shown" /\ filename # ""
                THEN [path |-> filename, axes |-> done.axes] ELSE saved
    /\ UNCHANGED <<history_file, filename, source_dataset, target_dataset,
                   model_kind, model_training, entry_training>>
    /\ UNCHANGED lossvars

\* plot_model_results(model, source_dataset, target_dataset, device, filename)
PlotModelResults ==
    LET source == DatasetToTensor(source_dataset)
        target == DatasetToTensor(target_dataset)
    IN
    /\ entry_training' = model_training
    /\ IF ~source.ok \/ ~target.ok
       THEN /\ plot_outcome' = "stack_error"
            /\ UNCHANGED <<model_training, figure, saved>>
       ELSE /\ model_training' = EvalMode(model_training)
            /\ IF model_kind = "raises"
               THEN /\ plot_outcome' = "model_error"
                    /\ UNCHANGED <<figure, saved>>
               ELSE LET generated == ModelOutput(model_kind, source.tensor)
                        drawn == PlotDistributions(source.tensor, generated,
                                                   target.tensor)
                    IN /\ figure' = drawn.axes
                       /\ plot_outcome' = IF drawn.ok THEN "shown"
                                          ELSE "index_error"
                       /\ saved' = IF drawn.ok /\ filename # ""
                                   THEN [path |-> filename, axes |-> drawn.axes]
                                   ELSE saved
    /\ UNCHANGED <<history_file, filename, source_dataset, target_dataset,
                   model_kind>>
    /\ UNCHANGED lossvars

Init == InitLoss /\ NoHistory /\ filename = "" /\ NoModel /\ NoFigure

Next == SwLoss \/ Forward

Spec == Init /\ [][Next]_vars

\* the same runs, under the name the row-permutation property is stated for
SpecRows == Init /\ [][Next]_vars

\* a run that calls plot_loss
InitLossPlot == IdleLoss /\ InitPlotLoss /\ NoModel /\ NoFigure

SpecPlotLoss == InitLossPlot /\ [][PlotLoss]_vars

\* a run that calls plot_model_results
InitModelPlot == IdleLoss /\ NoHistory /\ InitPlotModel /\ NoFigure

SpecPlotModel == InitModelPlot /\ [][PlotModelResults]_vars

\* ---------------------------------------------------------------- claims
Called == result.kind # "none"

SameFeatureDim == Cols(true_distribution) = Cols(generated_distribution)

SameBatchSize == Rows(true_distribution) = Rows(generated_distribution)

UnitColumns(t) ==
    \A j \in 1..Cols(t) : SumSquares(Column(t, j)) = Scale * Scale

PermuteRows(x, p) == [i \in 1..Rows(x) |-> x[p[i]]]

RowPermutations(x) == {PermuteRows(x, p) : p \in Permutations(1..Rows(x))}

Ascending(s) == SortSeq(s, LAMBDA u, v : u < v)

\* C1: whenever sw_loss returns a score, the score is >= 0.
C1_NonNegative ==
    result.kind = "score" => result.num >= 0 /\ result.den > 0

C1_Witness ==
    /\ result.kind = "score"
    /\ result.num > 0
    /\ Cols(theta) = MaxProj
    /\ Rows(true_distribution) > 1

\* C2: a call with batch_a = batch_b (same rows, same order) returns exactly
\* 0, whatever the number of projections and the directions drawn.
C2_IdenticalIsZero ==
    Called /\ true_distribution = generated_distribution
        => result.kind = "score" /\ result.num = 0

C2_Witness ==
    /\ Called
    /\ true_distribution = generated_distribution
    /\ Rows(true_distribution) > 1
    /\ true_distribution[1] # true_distribution[2]
    /\ Cols(theta) > 1
    /\ result.num = 0

\* C3: a call with batches of different feature dimension ends in an error
\* (raised by the projection of the second batch), never in a score.
C3_DimMismatchRaises ==
    Called /\ ~SameFeatureDim => result = Raised("matmul")

C3_Witness ==
    /\ Called
    /\ ~SameFeatureDim
    /\ ~SameBatchSize
    /\ result.kind = "error"

\* C4 as stated: with equal feature dimension and different batch sizes the
\* call raises no error and returns a score.
C4_Original ==
    Called /\ SameFeatureDim /\ ~SameBatchSize => result.kind = "score"

\* C4 as amended: with equal feature dimension and different batch sizes the
\* call returns a score (without flagging the mismatch) exactly when one of
\* the batches has a single row; otherwise it raises.
C4_Amended ==
    Called /\ SameFeatureDim /\ ~SameBatchSize
        => (result.kind = "score"
              <=> (Rows(true_distribution) = 1 \/ Rows(generated_distribution) = 1))

C4_Witness ==
    /\ SameFeatureDim
    /\ Rows(true_distribution) = 1
    /\ Rows(generated_distribution) > 1
    /\ result.kind = "score"
    /\ result.num > 0

\* C5 as stated: with different batch sizes the subtraction of the sorted
\* projections fails with a shape error, also when one batch has one row.
C5_Original ==
    Called /\ SameFeatureDim /\ ~SameBatchSize => result = Raised("sub")

\* C5 as amended: with different batch sizes, both greater than 1, the
\* subtraction of the sorted projections fails with a shape error.
C5_Amended ==
    /\ Called /\ SameFeatureDim /\ ~SameBatchSize
    /\ Rows(true_distribution) > 1 /\ Rows(generated_distribution) > 1
    => result = Raised("sub")

C5_Witness ==
    /\ SameFeatureDim
    /\ Rows(true_distribution) = 2
    /\ Rows(generated_distribution) = 3
    /\ result = Raised("sub")

IsSeriesOf(line, key, label) ==
    \E i \in 1..Len(history_file.members) :
        /\ history_file.members[i].key = key
        /\ \A j \in (i + 1)..Len(history_file.members) :
               history_file.members[j].key # key
        /\ line.y = history_file.members[i].value
        /\ Len(line.x) = Len(line.y)
        /\ \A k \in 1..Len(line.x) : line.x[k] = k - 1
        /\ line.label = label

C7_PlotLossSeries ==
    plot_outcome = "shown"
        => /\ Len(figure) = 1
           /\ Len(figure[1]) = 2
           /\ IsSeriesOf(figure[1][1], "train_loss", "Train Loss")
           /\ IsSeriesOf(figure[1][2], "valid_loss", "Valid Loss")

C7_Witness ==
    /\ plot_outcome = "shown"
    /\ Len(figure[1][1].y) = MaxEpochs
    /\ Len(figure[1][2].y) = MaxEpochs - 1
    /\ figure[1][1].y[1] # figure[1][1].y[2]

\* C8: a call reads and writes nothing outside itself but the global
\* generator: it consumes the samples of one fresh feature_dim x P matrix,
\* leaves both batches as they were and SWDLoss.num_projections as set at
\* construction.
C8_Frame ==
    [][/\ true_distribution' = true_distribution
       /\ generated_distribution' = generated_distribution
       /\ num_projections' = num_projections
       /\ plotvars' = plotvars
       /\ Rows(theta') = Cols(true_distribution)
       /\ rng' = rng + Rows(theta') * Cols(theta')]_vars

C8_Witness ==
    /\ Called
    /\ rng > Rows(theta) * Cols(theta)
    /\ Rows(true_distribution) > 1
    /\ true_distribution # SortDim0(true_distribution)

\* C9: for a fixed projection matrix and equal batch sizes the score depends
\* only on the multiset of rows of each batch: permuting the rows of either
\* batch, or of both, leaves it unchanged, and a batch_b that is a row
\* permutation of batch_a scores exactly 0.
C9_PermutationInvariant ==
    Called /\ SameFeatureDim /\ SameBatchSize
        => /\ \A pa \in RowPermutations(true_distribution) :
              \A pb \in RowPermutations(generated_distribution) :
                  SwLossWith(pa, pb, theta) = result
           /\ generated_distribution \in RowPermutations(true_distribution)
                  => result.kind = "score" /\ result.num = 0

C9_Witness ==
    /\ Called /\ SameFeatureDim
    /\ Rows(true_distribution) = MaxBatch
    /\ generated_distribution \in RowPermutations(true_distribution)
    /\ generated_distribution # true_distribution
    /\ Cols(theta) > 1
    /\ result.num = 0

\* C10: once plot_model_results has switched the model to evaluation mode
\* (it returned, or raised after the switch), the model is in evaluation
\* mode whatever mode it was in on entry.
C10_EvalModeKept ==
    plot_outcome \in {"shown", "model_error", "index_error"} => ~model_training

C10_Witness ==
    /\ plot_outcome = "shown"
    /\ entry_training
    /\ ~model_training

====
